---- MODULE Spec2Model ----
(***************************************************************************)
(* Model of the sketch-based-modeling Maya scripts:                        *)
(*   - curve_fitting_UI.py : CurveFittingWindowUI and Canvas               *)
(*   - cross_section_extract_cmd.py : CrossSectionExtractCmd               *)
(* A Python str is a sequence of one-character strings, a Python list a    *)
(* sequence, an om.MVector a triple <<x, y, z>>.  The functions of the     *)
(* imported module curve_fitting, which is not part of the sources, are    *)
(* modelled as symbolic terms over their arguments.                        *)
(***************************************************************************)
EXTENDS Integers, Sequences, FiniteSets, TLC

VARIABLES
    canvas,         \* the attributes of the Canvas
    win,            \* the widgets of the CurveFittingWindowUI
    paint_pending,  \* update() has posted a paint event for the canvas
    data_file,      \* the lines of the data file selected last
    disk,           \* the directories and files that the window has written
    event,          \* the handler that ran last
    err,            \* the exception that it raised, "" if none
    cmd,            \* the attributes of the CrossSectionExtractCmd run last
    scene,          \* the Maya scene: its DAG nodes and the active selection
    nevents         \* the number of events of the session so far

vars == <<canvas, win, paint_pending, data_file, disk, event, err, cmd, scene,
         nevents>>

(***************************************************************************)
(* Bounds of the model.                                                    *)
(***************************************************************************)
\* longest data file of SpecLoad, in lines
MaxLines == 4
\* longest curve of SpecCut, in vertices
MaxPts == 4
\* most cut points typed into the cut point line edit
MaxCuts == 3
\* most events of a session with the whole window
MaxEvents == 7
\* the number of cut point candidates that draw_originalEllipse labels
CandidateCount == 20

(***************************************************************************)
(* Python built-ins.                                                       *)
(***************************************************************************)
Digits == <<"0", "1", "2", "3", "4", "5", "6", "7", "8", "9">>

IsDigit(ch) == \E d \in DOMAIN Digits : Digits[d] = ch

DigitVal(ch) == (CHOOSE d \in DOMAIN Digits : Digits[d] = ch) - 1

RECURSIVE DigitsVal(_)
DigitsVal(s) ==
    IF s = <<>> THEN 0
    ELSE 10 * DigitsVal(SubSeq(s, 1, Len(s) - 1)) + DigitVal(s[Len(s)])

\* str.split(sep): cut at every occurrence of sep; consecutive separators
\* and separators at either end give empty strings.
RECURSIVE split(_, _)
split(s, sep) ==
    IF \A k \in DOMAIN s : s[k] # sep THEN <<s>>
    ELSE LET k == CHOOSE j \in DOMAIN s :
                      s[j] = sep /\ \A i \in 1..(j - 1) : s[i] # sep
         IN  <<SubSeq(s, 1, k - 1)>> \o split(SubSeq(s, k + 1, Len(s)), sep)

\* str.split() without argument: cut at runs of whitespace, no empty strings.
split_ws(s) == SelectSeq(split(s, " "), LAMBDA t : t # <<>>)

\* the digits of a decimal literal with its optional sign removed
Unsigned(tok) == IF tok # <<>> /\ tok[1] \in {"-", "+"} THEN Tail(tok) ELSE tok

\* int(tok) returns a value (otherwise it raises ValueError)
int_ok(tok) == Unsigned(tok) # <<>> /\ \A k \in DOMAIN Unsigned(tok) : IsDigit(Unsigned(tok)[k])

int_of(tok) ==
    IF tok[1] = "-" THEN 0 - DigitsVal(Unsigned(tok)) ELSE DigitsVal(Unsigned(tok))

\* float(tok) on the literals of the model, which are decimal integers
float_ok(tok) == int_ok(tok)

float_of(tok) == int_of(tok)

\* the bound of a slice, as list[lo:hi] clamps it for a list of n entries
SliceBound(i, n) ==
    IF i < 0 THEN (IF i + n < 0 THEN 0 ELSE i + n)
    ELSE IF i > n THEN n ELSE i

\* list[lo:hi]: a new list
slice(list, lo, hi) ==
    LET a == SliceBound(lo, Len(list))
        b == SliceBound(hi, Len(list))
    IN  IF a < b THEN SubSeq(list, a + 1, b) ELSE <<>>

\* the position that the index i has in a list of n entries: list[-1] is the
\* last entry
pyindex(i, n) == IF i < 0 THEN i + n ELSE i

\* list[i] for -n <= i < n
item(list, i) == list[pyindex(i, Len(list)) + 1]

\* list.extend(other) and list.append(x), as the value of list afterwards
extend(list, other) == list \o other

append(list, x) == Append(list, x)

(***************************************************************************)
(* curve_fitting: the fitting engine, imported and not part of the sources.*)
(***************************************************************************)
RECURSIVE SumCoord(_, _)
SumCoord(vertices, k) ==
    IF vertices = <<>> THEN 0
    ELSE vertices[1][k] + SumCoord(Tail(vertices), k)

\* QPointF(x, y); a coordinate is a fraction <<numerator, denominator>>
QPointF(x, y) == [x |-> x, y |-> y]

\* getCenter(vertices): the arithmetic mean in the drawing plane (x, z);
\* raises on an empty vertex list.
getCenter_ok(vertices) == vertices # <<>>

getCenter(vertices) ==
    QPointF(<<SumCoord(vertices, 1), Len(vertices)>>,
            <<SumCoord(vertices, 3), Len(vertices)>>)

\* calculateAngle(vertices, center): one angle per vertex
calculateAngle(vertices, center) ==
    [i \in DOMAIN vertices |-> [angle_of |-> vertices[i], about |-> center]]

\* get_d_bar(vertices, center): one reference radius per vertex
get_d_bar(vertices, center) ==
    [i \in DOMAIN vertices |-> [d_bar_of |-> vertices[i], about |-> center]]

\* calculateTangent(vertices, angles): one tangent per vertex
calculateTangent(vertices, angles) ==
    [i \in DOMAIN vertices |-> [tangent_at |-> vertices[i], angle |-> angles[i]]]

\* calculateNormal(tangents): one normal per tangent
calculateNormal(tangents) ==
    [i \in DOMAIN tangents |-> [normal_to |-> tangents[i]]]

\* calculateCurvature(tangents, angles): one curvature per vertex
calculateCurvature(tangents, angles) ==
    [i \in DOMAIN tangents |-> [curvature_of |-> tangents[i], angle |-> angles[i]]]

\* the value of Ea and Em before any fit: 0.0
NoError == [error_of |-> <<"none">>]

(***************************************************************************)
(* Canvas.                                                                 *)
(***************************************************************************)
\* Canvas.__init__.  attrs names the groups of attributes that readFile and
\* cut_curve create and that do not exist before: "curve" (readFile's first
\* block), "halves" (the geometry and the two halves), "matrix" (the
\* segments).  A field of a group that does not exist yet holds a placeholder
\* that no handler reads.
\* what draw_originalEllipse has put on the widget since the background was
\* drawn: the edges of the curve as pairs of vertex indices (drawLine) and
\* the indices written at cut point candidates (drawText), in drawing order
Blank == [lines |-> <<>>, text |-> <<>>]

Canvas_init ==
    [originalEllipse |-> FALSE, generalisedEllipse |-> FALSE,
     standardEllipse |-> FALSE, manualJ |-> 10, autoJ_value |-> 0,
     manualJ_mode |-> FALSE, autoJ_mode |-> FALSE,
     single_piece_mode |-> TRUE, symmetry_mode |-> FALSE,
     fragment_mode |-> FALSE, composite_mode |-> FALSE,
     activateTangent |-> FALSE, activateCurvature |-> FALSE,
     activateCutPoint |-> FALSE, show_point_index |-> FALSE,
     attrs |-> {},
     vertices |-> <<>>, angles |-> <<>>, d |-> <<>>, d_bar |-> <<>>,
     Ea |-> NoError, Em |-> NoError, numPt |-> 0,
     center |-> QPointF(<<0, 1>>, <<0, 1>>),
     fragment_range |-> 0, start_index |-> 0, end_index |-> 0,
     a |-> <<>>, b |-> <<>>, generalisedEllipseVertices |-> <<>>,
     cut_points |-> <<>>,
     tangents |-> <<>>, normals |-> <<>>, curvatures |-> <<>>,
     a_first_half |-> <<>>, b_first_half |-> <<>>,
     vertices_first_half |-> <<>>, angles_first_half |-> <<>>,
     vertices_second_half |-> <<>>, angles_second_half |-> <<>>,
     center_first_half |-> QPointF(<<0, 1>>, <<0, 1>>),
     center_second_half |-> QPointF(<<0, 1>>, <<0, 1>>),
     vertices_matrix |-> <<>>, angles_matrix |-> <<>>,
     segment_center_list |-> <<>>,
     painted |-> Blank]

\* the exception that the body of readFile's loop raises on a line, "" if none
RECURSIVE LineError(_, _)
LineError(p, k) ==
    IF k > 3 THEN ""
    ELSE IF Len(p) < k THEN "IndexError"
    ELSE IF ~float_ok(p[k]) THEN "ValueError"
    ELSE LineError(p, k + 1)

\* LineVertex with the x and z fields exchanged
LineVertex_swapped(p) == <<float_of(p[3]), float_of(p[2]), float_of(p[1])>>

LineVertex(p) == <<float_of(p[1]), float_of(p[2]), float_of(p[3])>>

\* readFile's loop over the lines: numPt is counted before the line is parsed
RECURSIVE read_lines(_, _, _)
read_lines(c, content, i) ==
    IF i > Len(content) THEN [canvas |-> c, err |-> ""]
    ELSE LET p == split_ws(content[i])
             c1 == [c EXCEPT !.numPt = @ + 1]
         IN  IF LineError(p, 1) # ""
             THEN [canvas |-> c1, err |-> LineError(p, 1)]
             ELSE read_lines([c1 EXCEPT !.vertices = append(@, LineVertex(p))],
                             content, i + 1)

\* split_halves with the first half ending one vertex early
split_halves_short(c) ==
    LET I == c.numPt \div 2
    IN  [c EXCEPT
           !.a_first_half = <<>>,
           !.b_first_half = <<>>,
           !.vertices_first_half = slice(c.vertices, 0, I),
           !.angles_first_half = slice(c.angles, 0, I),
           !.vertices_second_half =
               append(slice(c.vertices, I, c.numPt), c.vertices[1]),
           !.angles_second_half =
               append(slice(c.angles, I, c.numPt), c.angles[1]),
           !.center_first_half = getCenter(slice(c.vertices, 0, I + 1)),
           !.center_second_half =
               getCenter(append(slice(c.vertices, I, c.numPt), c.vertices[1])),
           !.vertices_matrix = <<>>,
           !.angles_matrix = <<>>,
           !.segment_center_list = <<>>,
           !.attrs = @ \cup {"halves", "matrix"}]

\* readFile, lines 633-648: the two halves and the empty segment lists
split_halves(c) ==
    LET I == c.numPt \div 2
    IN  [c EXCEPT
           !.a_first_half = <<>>,
           !.b_first_half = <<>>,
           !.vertices_first_half = slice(c.vertices, 0, I + 1),
           !.angles_first_half = slice(c.angles, 0, I + 1),
           !.vertices_second_half =
               append(slice(c.vertices, I, c.numPt), c.vertices[1]),
           !.angles_second_half =
               append(slice(c.angles, I, c.numPt), c.angles[1]),
           !.center_first_half = getCenter(slice(c.vertices, 0, I + 1)),
           !.center_second_half =
               getCenter(append(slice(c.vertices, I, c.numPt), c.vertices[1])),
           !.vertices_matrix = <<>>,
           !.angles_matrix = <<>>,
           !.segment_center_list = <<>>,
           !.attrs = @ \cup {"halves", "matrix"}]

\* readFile, lines 625-631: the geometry of the loaded curve
curve_geometry(c) ==
    LET center == getCenter(c.vertices)
        angles == calculateAngle(c.vertices, center)
        tangents == calculateTangent(c.vertices, angles)
    IN  [c EXCEPT
           !.center = center,
           !.d_bar = get_d_bar(c.vertices, center),
           !.angles = angles,
           !.tangents = tangents,
           !.normals = calculateNormal(tangents),
           !.curvatures = calculateCurvature(tangents, angles)]

\* Canvas.readFile(file_path), content the lines of the file at file_path
readFile(c, content) ==
    LET c0 == [c EXCEPT
                 !.vertices = <<>>, !.angles = <<>>, !.d = <<>>, !.d_bar = <<>>,
                 !.Ea = NoError, !.Em = NoError, !.numPt = 0,
                 !.center = QPointF(<<0, 1>>, <<0, 1>>),
                 !.fragment_range = 0, !.start_index = 0, !.end_index = 0,
                 !.a = <<>>, !.b = <<>>, !.generalisedEllipseVertices = <<>>,
                 !.cut_points = <<>>,
                 !.attrs = @ \cup {"curve"}]
        r == read_lines(c0, content, 1)
    IN  IF r.err # "" THEN r
        ELSE IF ~getCenter_ok(r.canvas.vertices)
        THEN [canvas |-> r.canvas, err |-> "DegenerateGeometry"]
        ELSE [canvas |-> split_halves(curve_geometry(r.canvas)), err |-> ""]

\* cut_segment that builds a wrapping segment in the curve's own lists
cut_segment_in_place(c, i) ==
    LET N == Len(c.cut_points)
        lo == c.cut_points[i + 1]
        hi == c.cut_points[((i + 1) % N) + 1]
        wrapped_vertices == extend(c.vertices, slice(c.vertices, 0, hi + 1))
        wrapped_angles == extend(c.angles, slice(c.vertices, 0, hi + 1))
    IN  IF lo < hi
        THEN [c EXCEPT
                !.vertices_matrix = append(@, slice(c.vertices, lo, hi + 1)),
                !.angles_matrix = append(@, slice(c.angles, lo, hi + 1))]
        ELSE [c EXCEPT
                !.vertices = wrapped_vertices,
                !.angles = wrapped_angles,
                !.vertices_matrix =
                    append(@, slice(wrapped_vertices, lo, Len(wrapped_vertices))),
                !.angles_matrix =
                    append(@, slice(wrapped_angles, lo, Len(wrapped_angles)))]

\* cut_segment with slices that leave out the vertex at the next cut point
cut_segment_exclusive(c, i) ==
    LET N == Len(c.cut_points)
        lo == c.cut_points[i + 1]
        hi == c.cut_points[((i + 1) % N) + 1]
        tmp_vertices ==
            IF lo < hi THEN slice(c.vertices, lo, hi)
            ELSE extend(slice(c.vertices, lo, c.numPt), slice(c.vertices, 0, hi))
        tmp_angles ==
            IF lo < hi THEN slice(c.angles, lo, hi)
            ELSE extend(slice(c.angles, lo, c.numPt), slice(c.vertices, 0, hi))
    IN  [c EXCEPT !.vertices_matrix = append(@, tmp_vertices),
                  !.angles_matrix = append(@, tmp_angles)]

\* one pass of cut_curve's loop, lines 586-597, for the 0-based index i
cut_segment(c, i) ==
    LET N == Len(c.cut_points)
        lo == c.cut_points[i + 1]
        hi == c.cut_points[((i + 1) % N) + 1]
        tmp_vertices ==
            IF lo < hi THEN slice(c.vertices, lo, hi + 1)
            ELSE extend(slice(c.vertices, lo, c.numPt), slice(c.vertices, 0, hi + 1))
        tmp_angles ==
            IF lo < hi THEN slice(c.angles, lo, hi + 1)
            ELSE extend(slice(c.angles, lo, c.numPt), slice(c.vertices, 0, hi + 1))
    IN  [c EXCEPT !.vertices_matrix = append(@, tmp_vertices),
                  !.angles_matrix = append(@, tmp_angles)]

\* cut_curve's loop from index i on; getCenter raises on an empty segment,
\* after the segment has been appended
RECURSIVE cut_loop(_, _)
cut_loop(c, i) ==
    IF i >= Len(c.cut_points) THEN [canvas |-> c, err |-> ""]
    ELSE LET c1 == cut_segment(c, i)
             tmp_vertices == c1.vertices_matrix[Len(c1.vertices_matrix)]
         IN  IF ~getCenter_ok(tmp_vertices)
             THEN [canvas |-> c1, err |-> "DegenerateGeometry"]
             ELSE cut_loop([c1 EXCEPT !.segment_center_list =
                                          append(@, getCenter(tmp_vertices))],
                           i + 1)

\* Canvas.cut_curve(cut_points), up to its closing self.update()
cut_curve(c, cut_points) ==
    cut_loop([c EXCEPT !.cut_points = cut_points,
                       !.vertices_matrix = <<>>,
                       !.angles_matrix = <<>>,
                       !.segment_center_list = <<>>,
                       !.attrs = @ \cup {"matrix"}],
             0)

(***************************************************************************)
(* curve_fitting: the fits.  A fit of order J needs 2J+1 samples and one   *)
(* angle per vertex; otherwise the engine raises.  The coefficients and    *)
(* the error measures are terms naming the call that produced them.        *)
(***************************************************************************)
\* the order at which findJ starts its search
findJ_first == 1

fit_ok(J, vertices, angles) ==
    /\ J >= 1
    /\ Len(vertices) = Len(angles)
    /\ Len(vertices) >= 2 * J + 1

\* findJ(vertices, angles, d_bar, center, Ea_criteria, Em_criteria)
findJ_ok(vertices, angles) == fit_ok(findJ_first, vertices, angles)

findJ(vertices, angles) == findJ_first

\* the coefficient list named name of a fit
Coefficients(name, call, J, vertices) ==
    [k \in 1..J |-> [coef |-> <<name, k>>, of |-> <<call, J, vertices>>]]

\* the error measure named name of a fit with coefficients a
ErrorOf(name, call, a, vertices) ==
    [error_of |-> <<name, call, Len(a), vertices>>]

\* composite_auto_mode(vertices_matrix, angles_matrix, segment_center_list,
\* cut_points, d_bar, Ea_criteria, Em_criteria): the fitted vertices of every
\* segment and the errors of the whole curve
composite_auto_mode(vertices_matrix, angles_matrix, cut_points) ==
    [vertices |-> [i \in DOMAIN vertices_matrix |->
                      [k \in DOMAIN vertices_matrix[i] |->
                          [fitted |-> vertices_matrix[i][k],
                           order |-> findJ(vertices_matrix[i], angles_matrix[i])]]],
     Ea |-> [error_of |-> <<"Ea", "composite_auto_mode", cut_points, vertices_matrix>>],
     Em |-> [error_of |-> <<"Em", "composite_auto_mode", cut_points, vertices_matrix>>]]

\* extract_fragment_data(vertices, angles, fragment_range): the arc from
\* vertex 0 that covers fragment_range percent of the curve
fragment_start(vertices) ==
    IF vertices = <<>> THEN 0
    ELSE (CHOOSE i \in DOMAIN vertices :
              /\ \A j \in DOMAIN vertices : vertices[i][1] <= vertices[j][1]
              /\ \A j \in 1..(i - 1) : vertices[i][1] < vertices[j][1]) - 1

fragment_end(vertices, fragment_range) ==
    IF vertices = <<>> THEN 0
    ELSE (fragment_start(vertices)
          + (fragment_range * (Len(vertices) - 1)) \div 100) % Len(vertices)

\* the entries of list on the arc from start_index to end_index, which wraps
\* past the end of the list if start_index > end_index
fragment_arc(list, start_index, end_index) ==
    IF start_index <= end_index THEN slice(list, start_index, end_index + 1)
    ELSE slice(list, start_index, Len(list)) \o slice(list, 0, end_index + 1)

\* the magnitude of a curvature, by which sortCurvature ranks: the model
\* takes the z coordinate of the vertex for it
CurvatureMagnitude(curvature) == curvature.curvature_of.tangent_at[3]

\* sortCurvature(curvatures): the pairs (index, curvature) by descending
\* magnitude, equal magnitudes by ascending index
sortCurvature(curvatures) ==
    LET Before(i, j) ==
            \/ CurvatureMagnitude(curvatures[i]) > CurvatureMagnitude(curvatures[j])
            \/ /\ CurvatureMagnitude(curvatures[i]) = CurvatureMagnitude(curvatures[j])
               /\ i < j
        Rank(j) == 1 + Cardinality({i \in DOMAIN curvatures : Before(i, j)})
    IN  [r \in DOMAIN curvatures |->
            LET j == CHOOSE j \in DOMAIN curvatures : Rank(j) = r
            IN  <<j - 1, curvatures[j]>>]

(***************************************************************************)
(* Canvas.paintEvent.                                                      *)
(***************************************************************************)
\* draw_generalisedEllipse, single piece branch (lines 701-719)
draw_single_piece(c) ==
    IF ~(c.manualJ_mode \/ c.autoJ_mode) THEN [canvas |-> c, err |-> ""]
    ELSE IF ~c.manualJ_mode /\ ~findJ_ok(c.vertices, c.angles)
    THEN [canvas |-> c, err |-> "InsufficientSamples"]
    ELSE LET J == IF c.manualJ_mode THEN c.manualJ ELSE findJ(c.vertices, c.angles)
             c1 == IF c.manualJ_mode THEN c ELSE [c EXCEPT !.autoJ_value = J]
             a == Coefficients("a", "getCoefficients", J, c.vertices)
             b == Coefficients("b", "getCoefficients", J, c.vertices)
         IN  IF ~fit_ok(J, c.vertices, c.angles)
             THEN [canvas |-> c1, err |-> "InsufficientSamples"]
             ELSE [canvas |->
                     [c1 EXCEPT
                        !.a = a, !.b = b,
                        !.generalisedEllipseVertices =
                            [i \in DOMAIN c.vertices |->
                                [fitted |-> c.vertices[i], order |-> J]],
                        !.Ea = ErrorOf("Ea", "formGeneralizedEllipse", a, c.vertices),
                        !.Em = ErrorOf("Em", "formGeneralizedEllipse", a, c.vertices)],
                   err |-> IF c.numPt > Len(c.vertices) THEN "IndexError" ELSE ""]

\* draw_generalisedEllipse, symmetry branch (lines 721-761): the coefficients
\* stay in local variables
draw_symmetry(c) ==
    IF ~(c.manualJ_mode \/ c.autoJ_mode) THEN [canvas |-> c, err |-> ""]
    ELSE IF "halves" \notin c.attrs THEN [canvas |-> c, err |-> "AttributeError"]
    ELSE IF ~c.manualJ_mode /\ ~findJ_ok(c.vertices_first_half, c.angles_first_half)
    THEN [canvas |-> c, err |-> "InsufficientSamples"]
    ELSE LET J == IF c.manualJ_mode THEN c.manualJ
                  ELSE findJ(c.vertices_first_half, c.angles_first_half)
             c1 == IF c.manualJ_mode THEN c ELSE [c EXCEPT !.autoJ_value = J]
             a_first_half ==
                 Coefficients("a", "getCoefficients_for_first_generalized_elliptic_segment",
                              J, c.vertices_first_half)
         IN  IF ~fit_ok(J, c.vertices_first_half, c.angles_first_half)
             THEN [canvas |-> c1, err |-> "InsufficientSamples"]
             ELSE [canvas |->
                     [c1 EXCEPT
                        !.Ea = ErrorOf("Ea", "form_vertices_of_segmented_ellipse",
                                       a_first_half, c.vertices_first_half),
                        !.Em = ErrorOf("Em", "form_vertices_of_segmented_ellipse",
                                       a_first_half, c.vertices_first_half)],
                   err |-> ""]

\* draw_generalisedEllipse, fragment branch (lines 764-773)
draw_fragment(c) ==
    IF ~c.manualJ_mode THEN [canvas |-> c, err |-> ""]
    ELSE LET J == c.manualJ
             start_index == fragment_start(c.vertices)
             end_index == fragment_end(c.vertices, c.fragment_range)
             vertices == fragment_arc(c.vertices, start_index, end_index)
             angles == fragment_arc(c.angles, start_index, end_index)
             c1 == [c EXCEPT !.start_index = start_index, !.end_index = end_index]
             a == Coefficients("a", "getCoefficients_for_fragmented_ellipse", J, vertices)
         IN  IF ~fit_ok(J, vertices, angles)
             THEN [canvas |-> c1, err |-> "InsufficientSamples"]
             ELSE [canvas |->
                     [c1 EXCEPT
                        !.Ea = ErrorOf("Ea", "form_vertices_of_fragment", a, vertices),
                        !.Em = ErrorOf("Em", "form_vertices_of_fragment", a, vertices)],
                   err |-> ""]

\* draw_generalisedEllipse, composite branch (lines 776-794): the result of
\* composite_auto_mode stays in local variables
draw_composite(c) ==
    IF ~c.autoJ_mode THEN [canvas |-> c, err |-> ""]
    ELSE IF "matrix" \notin c.attrs THEN [canvas |-> c, err |-> "AttributeError"]
    ELSE IF \E i \in DOMAIN c.vertices_matrix :
               ~findJ_ok(c.vertices_matrix[i], c.angles_matrix[i])
    THEN [canvas |-> c, err |-> "InsufficientSamples"]
    ELSE LET composite == composite_auto_mode(c.vertices_matrix, c.angles_matrix,
                                              c.cut_points)
             Ea == composite.Ea
             Em == composite.Em
         IN  [canvas |-> c, err |-> ""]

\* Canvas.draw_generalisedEllipse
draw_generalisedEllipse(c) ==
    IF c.single_piece_mode THEN draw_single_piece(c)
    ELSE IF c.symmetry_mode THEN draw_symmetry(c)
    ELSE IF c.fragment_mode THEN draw_fragment(c)
    ELSE IF c.composite_mode THEN draw_composite(c)
    ELSE [canvas |-> c, err |-> ""]

\* the exception that Canvas.draw_originalEllipse raises, "" if none; it
\* changes no attribute of the canvas
draw_originalEllipse_err(c) ==
    IF c.vertices = <<>> THEN ""
    ELSE IF ~c.fragment_mode /\ ~c.composite_mode
    THEN IF c.numPt > Len(c.vertices) THEN "IndexError"
         ELSE IF (c.activateTangent \/ c.activateCurvature) /\ "halves" \notin c.attrs
         THEN "AttributeError"
         ELSE IF c.activateTangent /\ c.numPt > Len(c.tangents) THEN "IndexError"
         ELSE IF c.activateCurvature /\ c.numPt > Len(c.normals) THEN "IndexError"
         ELSE IF c.activateCutPoint /\ "halves" \notin c.attrs THEN "AttributeError"
         ELSE IF c.activateCutPoint /\ Len(c.curvatures) < CandidateCount - 1
         THEN "IndexError"
         ELSE ""
    ELSE IF c.fragment_mode
    THEN IF c.start_index < c.end_index
         THEN IF c.end_index >= Len(c.vertices) THEN "IndexError" ELSE ""
         ELSE IF c.numPt > Len(c.vertices) \/ c.end_index >= Len(c.vertices)
              THEN "IndexError" ELSE ""
    ELSE IF "matrix" \notin c.attrs THEN "AttributeError" ELSE ""

\* the edges of a loop that takes vertices[-1] for no vertex of the curve
edges_unclosed(lo, hi, n) ==
    [k \in 1..(IF hi > lo + 1 THEN hi - lo - 1 ELSE 0) |->
        <<IF lo = 0 THEN k - 1 ELSE lo + k - 2, IF lo = 0 THEN k ELSE lo + k - 1>>]

\* the edges (i-1, i) that a loop of draw_originalEllipse draws for the
\* indices lo, lo+1, ..., hi-1 of range(lo, hi)
edges(lo, hi, n) ==
    [k \in 1..(IF hi > lo THEN hi - lo ELSE 0) |-> <<pyindex(lo + k - 2, n), lo + k - 1>>]

\* the labels of the cut point candidates (lines 834-840)
candidates(c) ==
    LET od == sortCurvature(c.curvatures)
    IN  [k \in 1..CandidateCount |-> item(od, 0 - (k - 1))[1]]

\* what a call of Canvas.draw_originalEllipse that returns has drawn: the
\* edges of the curve and the labels of the candidates (the lines of the
\* tangents and curvatures and the coloured rows of composite mode are not
\* recorded)
draw_originalEllipse(c) ==
    IF c.vertices = <<>> THEN Blank
    ELSE IF ~c.fragment_mode /\ ~c.composite_mode
    THEN [lines |-> edges(0, c.numPt, Len(c.vertices)),
          text |-> IF c.activateCutPoint THEN candidates(c) ELSE <<>>]
    ELSE IF c.fragment_mode
    THEN [lines |-> IF c.start_index < c.end_index
                    THEN edges(c.start_index + 1, c.end_index + 1, Len(c.vertices))
                    ELSE edges(c.start_index + 1, c.numPt, Len(c.vertices))
                         \o edges(0, c.end_index + 1, Len(c.vertices)),
          text |-> <<>>]
    ELSE Blank

\* the exception that Canvas.draw_standardEllipse raises, "" if none; it
\* changes no attribute of the canvas
draw_standardEllipse_err(c) ==
    IF c.numPt > Len(c.angles) \/ c.numPt > Len(c.vertices) THEN ""
    ELSE IF c.numPt = 0 THEN "ZeroDivisionError"
    ELSE ""

\* the exception that Canvas.draw_point_index raises, "" if none
draw_point_index_err(c) ==
    IF c.numPt > Len(c.vertices) THEN "IndexError" ELSE ""

\* Canvas.paintEvent: the draw calls in their order; an exception ends it
paintEvent(c0) ==
    LET c == [c0 EXCEPT !.painted =
                 IF c0.originalEllipse /\ draw_originalEllipse_err(c0) = ""
                 THEN draw_originalEllipse(c0) ELSE Blank]
    IN
    IF c.originalEllipse /\ draw_originalEllipse_err(c) # ""
    THEN [canvas |-> c, err |-> draw_originalEllipse_err(c)]
    ELSE IF c.standardEllipse /\ draw_standardEllipse_err(c) # ""
    THEN [canvas |-> c, err |-> draw_standardEllipse_err(c)]
    ELSE LET r == IF c.generalisedEllipse THEN draw_generalisedEllipse(c)
                  ELSE [canvas |-> c, err |-> ""]
         IN  IF r.err # "" THEN r
             ELSE IF c.show_point_index /\ draw_point_index_err(c) # ""
             THEN [canvas |-> r.canvas, err |-> draw_point_index_err(c)]
             ELSE r

(***************************************************************************)
(* CurveFittingWindowUI.                                                   *)
(***************************************************************************)
\* the path of the data file that the open dialog offers
DataPath == "data/Source_male_cross_section_u_at_0.dat"

\* the file path that the save dialog returns when the user accepts it
SavePath == "data/male/male_cross_section_u_at_0.dat"

\* create_widgets: the state of the widgets that the handlers read or set.
\* shown holds the widgets that are not hidden (setVisible).
Win_init ==
    [filePath_lineEdit |-> "",
     segment_comboBox |-> "single piece",
     generalizedEllipse_checkBox |-> FALSE,
     originalEllipse_checkBox |-> FALSE,
     standardEllipse_checkBox |-> FALSE,
     showPointIndex_checkBox |-> FALSE,
     showTangent_checkBox |-> FALSE,
     showCurvature_checkBox |-> FALSE,
     showCutPointCandidate_checkBox |-> FALSE,
     manualJ_mode_radioButton |-> FALSE,
     autoJ_mode_radioButton |-> FALSE,
     J_spinBox |-> 10,
     J_spinBox_readOnly |-> TRUE,
     Ea_lineEdit |-> <<>>,
     Em_lineEdit |-> <<>>,
     range_slider |-> 0,
     shown |-> {"manualJ_mode_radioButton", "autoJ_mode_radioButton"}]

\* QWidget.setVisible on the widgets names
setVisible(w, names, visible) ==
    [w EXCEPT !.shown = IF visible THEN @ \cup names ELSE @ \ names]

\* the user can operate a widget that is shown, inside a parent that is shown
InRadioGroup(name) ==
    name \in {"manualJ_mode_radioButton", "autoJ_mode_radioButton", "J_spinBox"}

Operable(w, name) ==
    IF InRadioGroup(name)
    THEN "radio_group" \in w.shown /\ (name = "J_spinBox" \/ name \in w.shown)
    ELSE name \in w.shown

\* the state a handler works on: the canvas, the widgets, whether update()
\* has posted a paint event, and the exception raised (printed by the event
\* loop), "" if none
HandlerState(c, w, pending) ==
    [canvas |-> c, win |-> w, pending |-> pending, err |-> ""]

\* QWidget.update(): a paint event is posted
update(s) == [s EXCEPT !.pending = TRUE]

\* QWidget.repaint(): paintEvent runs at once; an exception it raises is
\* printed and does not reach the caller
repaint(s) ==
    LET r == paintEvent(s.canvas)
    IN  [s EXCEPT !.canvas = r.canvas,
                  !.err = IF r.err # "" THEN r.err ELSE @]

\* str(x * 100)[0:4] + '%'
PercentText(x) == <<"percent", x>>

\* CurveFittingWindowUI.showEaEm
showEaEm(s) ==
    [s EXCEPT !.win.Ea_lineEdit = PercentText(s.canvas.Ea),
              !.win.Em_lineEdit = PercentText(s.canvas.Em)]

\* Canvas.setManualJ
setManualJ(s, j) == update([s EXCEPT !.canvas.manualJ = j])

\* CurveFittingWindowUI.update_manual_J_value
update_manual_J_value(s, J) == showEaEm(repaint(setManualJ(s, J)))

\* QSpinBox.setValue: the value is kept within [minimum, maximum], and
\* valueChanged is emitted when it changes
J_spinBox_setValue(s, value) ==
    LET v == IF value < 3 THEN 3 ELSE IF value > 99 THEN 99 ELSE value
    IN  IF v = s.win.J_spinBox THEN s
        ELSE update_manual_J_value([s EXCEPT !.win.J_spinBox = v], v)

\* CurveFittingWindowUI.update_visibility_manual_J_mode
update_visibility_manual_J_mode(s, checked) ==
    showEaEm(repaint([s EXCEPT !.canvas.manualJ_mode = checked,
                               !.canvas.autoJ_mode = ~checked,
                               !.win.J_spinBox_readOnly = ~checked]))

\* update_visibility_auto_J_mode that leaves manualJ_mode as it is
update_visibility_auto_J_mode_only(s, checked) ==
    LET s1 == showEaEm(repaint([s EXCEPT !.canvas.autoJ_mode = checked,
                                         !.win.J_spinBox_readOnly = checked]))
    IN  J_spinBox_setValue(s1, s1.canvas.autoJ_value)

\* CurveFittingWindowUI.update_visibility_auto_J_mode
update_visibility_auto_J_mode(s, checked) ==
    LET s1 == showEaEm(repaint([s EXCEPT !.canvas.autoJ_mode = checked,
                                         !.canvas.manualJ_mode = ~checked,
                                         !.win.J_spinBox_readOnly = checked]))
    IN  J_spinBox_setValue(s1, s1.canvas.autoJ_value)

\* segmentMode_change that sets the flag of the chosen mode and leaves the
\* three other flags as they are
segmentMode_change_set_only(s, text) ==
    LET c == s.canvas
        c1 == IF text = "single piece" THEN [c EXCEPT !.single_piece_mode = TRUE]
              ELSE IF text = "2 symmetrical halves" THEN [c EXCEPT !.symmetry_mode = TRUE]
              ELSE IF text = "fragment" THEN [c EXCEPT !.fragment_mode = TRUE]
              ELSE IF text = "composite" THEN [c EXCEPT !.composite_mode = TRUE]
              ELSE c
    IN  showEaEm(update([s EXCEPT !.canvas = c1]))

\* CurveFittingWindowUI.segmentMode_change
segmentMode_change(s, text) ==
    LET c == s.canvas
        w == s.win
        c1 == IF text \in {"single piece", "2 symmetrical halves", "fragment", "composite"}
              THEN [c EXCEPT !.single_piece_mode = (text = "single piece"),
                             !.symmetry_mode = (text = "2 symmetrical halves"),
                             !.fragment_mode = (text = "fragment"),
                             !.composite_mode = (text = "composite")]
              ELSE c
        range == {"range_label", "range_slider"}
        cut == {"cut_point_button", "cut_point_label", "cut_point_lineEdit"}
        manual == {"manualJ_mode_radioButton"}
        w1 == IF text \in {"single piece", "2 symmetrical halves"}
              THEN setVisible(setVisible(setVisible(w, range, FALSE), manual, TRUE),
                              cut, FALSE)
              ELSE IF text = "fragment"
              THEN setVisible(setVisible(setVisible(setVisible(
                       w, {"autoJ_mode_radioButton"}, FALSE), range, TRUE),
                       manual, TRUE), cut, FALSE)
              ELSE IF text = "composite"
              THEN setVisible(setVisible(setVisible(w, range, FALSE), manual, FALSE),
                              cut, TRUE)
              ELSE w
    IN  showEaEm(update([s EXCEPT !.canvas = c1, !.win = w1]))

\* CurveFittingWindowUI.get_cut_point with text in the cut point line edit
get_cut_point(s, text) ==
    LET list == split(text, " ")
    IN  IF \E k \in DOMAIN list : ~int_ok(list[k])
        THEN [s EXCEPT !.err = "ValueError"]
        ELSE LET cut_points == [k \in DOMAIN list |-> int_of(list[k])]
                 r == cut_curve(s.canvas, cut_points)
             IN  IF r.err # ""
                 THEN [s EXCEPT !.canvas = r.canvas, !.err = r.err]
                 ELSE update([s EXCEPT !.canvas = r.canvas])

\* CurveFittingWindowUI.show_file_selected_dialog when the user picks the
\* file at file_path with the lines content
show_file_selected_dialog(s, file_path, content) ==
    LET w == setVisible([s.win EXCEPT !.filePath_lineEdit = file_path],
                        {"standardEllipse_checkBox", "generalizedEllipse_checkBox",
                         "originalEllipse_checkBox"},
                        TRUE)
        r == readFile(s.canvas, content)
    IN  IF r.err # ""
        THEN [s EXCEPT !.win = w, !.canvas = r.canvas, !.err = r.err]
        ELSE update([s EXCEPT !.win = w, !.canvas = r.canvas])

\* CurveFittingWindowUI.drawMode_generalizedEllipse
drawMode_generalizedEllipse(s, checked) ==
    update([s EXCEPT
              !.win = setVisible([@ EXCEPT !.generalizedEllipse_checkBox = checked],
                                 {"showPointIndex_checkBox", "radio_group",
                                  "segment_label", "segment_comboBox",
                                  "saveAsDat_button", "saveAsImg_button"},
                                 checked),
              !.canvas.generalisedEllipse = checked])

\* CurveFittingWindowUI.drawMode_originalEllipse
drawMode_originalEllipse(s, checked) ==
    update([s EXCEPT
              !.win = setVisible([@ EXCEPT !.originalEllipse_checkBox = checked],
                                 {"showPointIndex_checkBox", "saveAsDat_button",
                                  "saveAsImg_button", "showCurvature_checkBox",
                                  "showTangent_checkBox",
                                  "showCutPointCandidate_checkBox"},
                                 checked),
              !.canvas.originalEllipse = checked])

\* CurveFittingWindowUI.drawMode_standardEllipse
drawMode_standardEllipse(s, checked) ==
    update([s EXCEPT
              !.win = setVisible([@ EXCEPT !.standardEllipse_checkBox = checked],
                                 {"saveAsDat_button", "saveAsImg_button"}, checked),
              !.canvas.standardEllipse = checked])

\* CurveFittingWindowUI.fragment_range_change and Canvas.set_fragment_range;
\* the range is kept in percent
fragment_range_change(s, value) ==
    update([s EXCEPT !.win.range_slider = value, !.canvas.fragment_range = value])

\* CurveFittingWindowUI.update_display_point_index
update_display_point_index(s, checked) ==
    repaint([s EXCEPT !.win.showPointIndex_checkBox = checked,
                      !.canvas.show_point_index = checked])

\* CurveFittingWindowUI.update_tangent
update_tangent(s, checked) ==
    repaint([s EXCEPT !.win.showTangent_checkBox = checked,
                      !.canvas.activateTangent = checked])

\* CurveFittingWindowUI.update_curvature
update_curvature(s, checked) ==
    repaint([s EXCEPT !.win.showCurvature_checkBox = checked,
                      !.canvas.activateCurvature = checked])

\* CurveFittingWindowUI.update_cut_point
update_cut_point(s, checked) ==
    repaint([s EXCEPT !.win.showCutPointCandidate_checkBox = checked,
                      !.canvas.activateCutPoint = checked])

\* the directory that save_dataFn derives from the name of the data file
\* (lines 382-388)
SaveDir == "data/male"

Lit(text) == <<"lit", text>>

\* str(x), '{}'.format(x)
Str(x) == <<"str", x>>

NL == <<"nl", "\n">>

\* for i in list: f.write(str(i)+' ')
RECURSIVE write_list(_)
write_list(list) ==
    IF list = <<>> THEN <<>>
    ELSE <<Str(list[1]), Lit(" ")>> \o write_list(Tail(list))

\* what save_dataFn writes to the file (lines 401-412): the pieces of text
\* in their order, a newline being a piece of its own
save_content(c) ==
    <<Lit("range:")>>
    \o (IF c.single_piece_mode THEN <<Lit("0-360 "), NL>> ELSE <<>>)
    \o <<Lit("center: "), Str(c.center.x), Lit(" "), Str(c.center.y), NL>>
    \o <<Lit("a: ")>> \o write_list(c.a) \o <<NL>>
    \o <<Lit("b: ")>> \o write_list(c.b) \o <<NL>>

\* open(file_path, "w+") ... f.close(): the file holds content
write_file(d, file_path, content) ==
    [d EXCEPT !.files = [q \in DOMAIN @ \cup {file_path} |->
                            IF q = file_path THEN content ELSE @[q]]]

\* CurveFittingWindowUI.save_dataFn; file_path is the answer of the save
\* dialog, "" when the user cancels it
save_dataFn(c, d, file_path) ==
    LET d1 == IF SaveDir \in d.dirs THEN d ELSE [d EXCEPT !.dirs = @ \cup {SaveDir}]
    IN  IF file_path # "" THEN write_file(d1, file_path, save_content(c)) ELSE d1

\* the directory that save_imageFn derives from the name of the data file
\* (lines 421-431)
ImageDir == "images/male/"

\* the file path that the save dialog of save_imageFn offers
ImagePath == "images/male/male_generalised_ellipse_u_at_0.png"

\* a file path without the suffix '.png' that the user types instead
ImagePathTyped == "images/male/fit"

\* file_path as save_imageFn opens it: '.png' is added if neither '.png' nor
\* '.PNG' occurs in it (lines 438-441)
with_png(file_path) ==
    IF file_path = ImagePathTyped THEN "images/male/fit.png" ELSE file_path

\* CurveFittingWindowUI.save_imageFn; file_path is the answer of the save
\* dialog, "" when the user cancels it. The image is the rendering of the
\* canvas, for which the canvas runs its paintEvent.
save_imageFn(s, d, file_path) ==
    IF s.win.filePath_lineEdit # DataPath
    THEN [state |-> [s EXCEPT !.err = "IndexError"], disk |-> d]
    ELSE LET d1 == IF ImageDir \in d.dirs THEN d
                   ELSE [d EXCEPT !.dirs = @ \cup {ImageDir}]
             r == paintEvent(s.canvas)
         IN  IF file_path = "" THEN [state |-> s, disk |-> d1]
             ELSE [state |-> [s EXCEPT !.canvas = r.canvas, !.err = r.err],
                   disk |-> [d1 EXCEPT !.images =
                                [q \in DOMAIN @ \cup {with_png(file_path)} |->
                                    IF q = with_png(file_path)
                                    THEN <<"PNG", r.canvas.painted>> ELSE @[q]]]]

(***************************************************************************)
(* The events of the window.                                               *)
(***************************************************************************)
Cur == HandlerState(canvas, win, paint_pending)

Handled(name, s) ==
    /\ canvas' = s.canvas
    /\ win' = s.win
    /\ paint_pending' = s.pending
    /\ err' = s.err
    /\ event' = name

ClickFileButton(content) ==
    /\ Handled("show_file_selected_dialog",
               show_file_selected_dialog(Cur, DataPath, content))
    /\ data_file' = content
    /\ UNCHANGED <<disk, cmd, scene>>

ToggleGeneralizedEllipse ==
    /\ Operable(win, "generalizedEllipse_checkBox")
    /\ Handled("drawMode_generalizedEllipse",
               drawMode_generalizedEllipse(Cur, ~win.generalizedEllipse_checkBox))
    /\ UNCHANGED <<data_file, disk, cmd, scene>>

ToggleOriginalEllipse ==
    /\ Operable(win, "originalEllipse_checkBox")
    /\ Handled("drawMode_originalEllipse",
               drawMode_originalEllipse(Cur, ~win.originalEllipse_checkBox))
    /\ UNCHANGED <<data_file, disk, cmd, scene>>

ToggleStandardEllipse ==
    /\ Operable(win, "standardEllipse_checkBox")
    /\ Handled("drawMode_standardEllipse",
               drawMode_standardEllipse(Cur, ~win.standardEllipse_checkBox))
    /\ UNCHANGED <<data_file, disk, cmd, scene>>

ToggleShowPointIndex ==
    /\ Operable(win, "showPointIndex_checkBox")
    /\ Handled("update_display_point_index",
               update_display_point_index(Cur, ~win.showPointIndex_checkBox))
    /\ UNCHANGED <<data_file, disk, cmd, scene>>

ToggleShowTangent ==
    /\ Operable(win, "showTangent_checkBox")
    /\ Handled("update_tangent", update_tangent(Cur, ~win.showTangent_checkBox))
    /\ UNCHANGED <<data_file, disk, cmd, scene>>

ToggleShowCurvature ==
    /\ Operable(win, "showCurvature_checkBox")
    /\ Handled("update_curvature", update_curvature(Cur, ~win.showCurvature_checkBox))
    /\ UNCHANGED <<data_file, disk, cmd, scene>>

ToggleShowCutPointCandidate ==
    /\ Operable(win, "showCutPointCandidate_checkBox")
    /\ Handled("update_cut_point",
               update_cut_point(Cur, ~win.showCutPointCandidate_checkBox))
    /\ UNCHANGED <<data_file, disk, cmd, scene>>

\* currentTextChanged: the user picks another item of the combo box
SelectSegmentMode(text) ==
    /\ Operable(win, "segment_comboBox")
    /\ text # win.segment_comboBox
    /\ Handled("segmentMode_change",
               segmentMode_change([Cur EXCEPT !.win.segment_comboBox = text], text))
    /\ UNCHANGED <<data_file, disk, cmd, scene>>

\* The two radio buttons exclude each other: checking one unchecks the other
\* first, and toggled(False) of the other is handled before toggled(True).
ClickManualJ ==
    /\ Operable(win, "manualJ_mode_radioButton")
    /\ ~win.manualJ_mode_radioButton
    /\ LET s0 == [Cur EXCEPT !.win.manualJ_mode_radioButton = TRUE,
                             !.win.autoJ_mode_radioButton = FALSE]
           s1 == IF win.autoJ_mode_radioButton
                 THEN update_visibility_auto_J_mode(s0, FALSE) ELSE s0
       IN  Handled("update_visibility_manual_J_mode",
                   update_visibility_manual_J_mode(s1, TRUE))
    /\ UNCHANGED <<data_file, disk, cmd, scene>>

ClickAutoJ ==
    /\ Operable(win, "autoJ_mode_radioButton")
    /\ ~win.autoJ_mode_radioButton
    /\ LET s0 == [Cur EXCEPT !.win.autoJ_mode_radioButton = TRUE,
                             !.win.manualJ_mode_radioButton = FALSE]
           s1 == IF win.manualJ_mode_radioButton
                 THEN update_visibility_manual_J_mode(s0, FALSE) ELSE s0
       IN  Handled("update_visibility_auto_J_mode",
                   update_visibility_auto_J_mode(s1, TRUE))
    /\ UNCHANGED <<data_file, disk, cmd, scene>>

\* valueChanged: the user sets the spin box, which is not read-only, to J
EditJ(J) ==
    /\ Operable(win, "J_spinBox")
    /\ ~win.J_spinBox_readOnly
    /\ J >= 3 /\ J <= 99 /\ J # win.J_spinBox
    /\ Handled("update_manual_J_value",
               update_manual_J_value([Cur EXCEPT !.win.J_spinBox = J], J))
    /\ UNCHANGED <<data_file, disk, cmd, scene>>

\* valueChanged of the range slider
MoveRangeSlider(value) ==
    /\ Operable(win, "range_slider")
    /\ value \in 0..100 /\ value # win.range_slider
    /\ Handled("fragment_range_change", fragment_range_change(Cur, value))
    /\ UNCHANGED <<data_file, disk, cmd, scene>>

\* the user types text into the cut point line edit and clicks Confirm
ConfirmCutPoints(text) ==
    /\ Operable(win, "cut_point_button")
    /\ Handled("get_cut_point", get_cut_point(Cur, text))
    /\ UNCHANGED <<data_file, disk, cmd, scene>>

\* the user clicks 'Save as .dat' and answers the dialog with file_path
ClickSaveAsDat(file_path) ==
    /\ Operable(win, "saveAsDat_button")
    /\ disk' = save_dataFn(canvas, disk, file_path)
    /\ event' = "save_dataFn"
    /\ err' = ""
    /\ UNCHANGED <<canvas, win, paint_pending, data_file, cmd, scene>>

ClickSaveAsImg(file_path) ==
    /\ Operable(win, "saveAsImg_button")
    /\ LET r == save_imageFn(Cur, disk, file_path)
       IN  /\ Handled("save_imageFn", r.state)
           /\ disk' = r.disk
    /\ UNCHANGED <<data_file, cmd, scene>>

\* the event loop delivers a paint event to the canvas
PaintEvent ==
    /\ LET r == paintEvent(canvas)
       IN  /\ canvas' = r.canvas
           /\ err' = r.err
    /\ paint_pending' = FALSE
    /\ event' = "paintEvent"
    /\ UNCHANGED <<win, data_file, disk, cmd, scene>>

(***************************************************************************)
(* The inputs of the model.                                                *)
(***************************************************************************)
\* the decimal literal of an integer
RECURSIVE NatText(_)
NatText(n) ==
    IF n < 10 THEN <<Digits[n + 1]>>
    ELSE NatText(n \div 10) \o <<Digits[(n % 10) + 1]>>

IntText(n) == IF n < 0 THEN <<"-">> \o NatText(0 - n) ELSE NatText(n)

\* a line of a data file: 'x y z'
LineText(v) ==
    IntText(v[1]) \o <<" ">> \o IntText(v[2]) \o <<" ">> \o IntText(v[3])

\* pairwise distinct points around the origin of the plane y = 0
CurvePoints ==
    << <<2, 0, 0>>, <<2, 0, 1>>, <<1, 0, 2>>, <<0, 0, 2>>, <<-1, 0, 2>>,
       <<-2, 0, 1>>, <<-2, 0, 0>>, <<-2, 0, -1>>, <<-1, 0, -2>>, <<0, 0, -2>>,
       <<1, 0, -2>>, <<2, 0, -1>> >>

\* the data file with the first n curve points, one per line
CurveFile(n) == [i \in 1..n |-> LineText(CurvePoints[i])]

\* the shortest curve is two vertices shorter than the longest
CurveFiles == {CurveFile(n) : n \in (MaxPts - 2)..MaxPts}

\* a curve of n vertices whose z coordinates are pairwise distinct and not
\* in the order of the vertices
RankedCurve(n) == [i \in 1..n |-> <<i - 1, 0, (5 * (i - 1)) % n>>]

RankedFile(n) == [i \in 1..n |-> LineText(RankedCurve(n)[i])]

\* the data files of SpecDraw: curves of more vertices than
\* draw_originalEllipse labels candidates
DrawFiles == {RankedFile(CandidateCount + 1), RankedFile(CandidateCount + 2)}

\* the data files of SpecArc
ArcFiles == {CurveFile(2 * MaxPts - 1), CurveFile(2 * MaxPts)}

\* a line 'x y z' with blanks before it and two blanks after x
PaddedLineText(v) ==
    <<" ">> \o IntText(v[1]) \o <<" ", " ">> \o IntText(v[2]) \o <<" ">> \o IntText(v[3])

\* lines of a data file: two plain ones, a padded one, an empty one and one
\* that holds a word
LineSet ==
    { LineText(<<2, 0, 0>>),
      LineText(<<0, 10, -2>>),
      PaddedLineText(<<1, 0, 2>>),
      <<>>,
      <<"1", " ", "x", " ", "0">> }

FileSet == UNION {[1..n -> LineSet] : n \in 0..MaxLines}

\* the indices that the user types into the cut point line edit
CutTokens == {<<"0">>, <<"1">>, <<"2">>}

\* ' '.join(tokens)
RECURSIVE join(_)
join(tokens) ==
    IF Len(tokens) = 1 THEN tokens[1]
    ELSE tokens[1] \o <<" ">> \o join(Tail(tokens))

\* the texts of the cut point line edit: up to MaxCuts indices with one
\* blank between them, the empty text, and a negative index
CutTexts ==
    {join(t) : t \in UNION {[1..n -> CutTokens] : n \in 1..MaxCuts}}
    \cup {<<>>, <<"-", "1">>}

SegmentModes == {"single piece", "2 symmetrical halves", "fragment", "composite"}

(***************************************************************************)
(* CrossSectionExtractCmd.                                                 *)
(***************************************************************************)
\* The DAG nodes of the scene. parent is the index of the parent node, 0 for
\* the world. Two meshes carry the name "body" under different parents: the
\* name matches both.
Nodes ==
    << [name |-> "body",  type |-> "mesh",  parent |-> 0, pos |-> <<0, 0, 0>>],
       [name |-> "body",  type |-> "mesh",  parent |-> 3, pos |-> <<1, 1, 1>>],
       [name |-> "cloth", type |-> "mesh",  parent |-> 0, pos |-> <<0, 2, 0>>],
       [name |-> "hip",   type |-> "joint", parent |-> 0, pos |-> <<0, 10, 0>>],
       [name |-> "knee",  type |-> "joint", parent |-> 4, pos |-> <<2, 4, 0>>],
       [name |-> "ankle", type |-> "joint", parent |-> 5, pos |-> <<2, 4, 6>>] >>

Scene_init == [nodes |-> Nodes, selection |-> {}]

\* om.MVector(): the zero vector; coordinates are fractions <<numerator,
\* denominator>>
MVector_zero == << <<0, 1>>, <<0, 1>>, <<0, 1>> >>

\* CrossSectionExtractCmd.__init__; a dag path is the index of its node, 0 for
\* the empty om.MDagPath(); u_parameter counts tenths
Cmd_init ==
    [mesh_name |-> "", mesh_dagPath |-> 0, bone_name |-> "", nextBone_name |-> "",
     bone_dagPath |-> 0, nextBone_dagPath |-> 0, u_parameter |-> 0,
     ray_center |-> MVector_zero, local_frame |-> <<"None">>]

\* om.MGlobal.getSelectionListByName: the nodes that match name, in DAG order
getSelectionListByName(sc, name) ==
    SelectSeq([n \in DOMAIN sc.nodes |-> n], LAMBDA n : sc.nodes[n].name = name)

\* om.MItSelectionList(sList, filter): the selected nodes of one type
MItSelectionList(sc, type) == {n \in sc.selection : sc.nodes[n].type = type}

\* parseArguments. args.mu is "unset" or a number of tenths, args.mmn and
\* args.mbn are "" when the flag is not set. last_mesh and last_bone are the
\* selected mesh and bone that the iteration visits last.
parseArguments(c, sc, args, last_mesh, last_bone) ==
    LET c1 == [c EXCEPT
                 !.u_parameter = IF args.mu = <<"unset">> THEN @ ELSE args.mu[2],
                 !.mesh_name = IF args.mmn = "" THEN @ ELSE args.mmn,
                 !.bone_name = IF args.mbn = "" THEN @ ELSE args.mbn]
    IN  IF c1.mesh_name = "" \/ c1.bone_name = ""
        THEN LET meshes == MItSelectionList(sc, "mesh")
                 bones == MItSelectionList(sc, "joint")
                 c2 == IF meshes = {} THEN c1
                       ELSE [c1 EXCEPT !.mesh_dagPath = last_mesh]
                 c3 == IF bones = {} THEN c2
                       ELSE [c2 EXCEPT !.bone_dagPath = last_bone]
             IN  IF Cardinality(meshes) = 0
                 THEN [cmd |-> c2, err |-> "ValueError: No mesh"]
                 ELSE IF Cardinality(meshes) > 1
                 THEN [cmd |-> c2, err |-> "ValueError: Multiple meshes"]
                 ELSE IF Cardinality(bones) = 0
                 THEN [cmd |-> c3, err |-> "ValueError: No bone"]
                 ELSE IF Cardinality(bones) > 1
                 THEN [cmd |-> c3, err |-> "ValueError: Multiple bones"]
                 ELSE [cmd |-> c3, err |-> ""]
        ELSE LET mesh_list == getSelectionListByName(sc, c1.mesh_name)
                 bone_list == getSelectionListByName(sc, c1.bone_name)
             IN  IF mesh_list = <<>>
                 THEN [cmd |-> c1, err |-> "RuntimeError: no object matches"]
                 ELSE IF bone_list = <<>>
                 THEN [cmd |-> [c1 EXCEPT !.mesh_dagPath = mesh_list[1]],
                       err |-> "RuntimeError: no object matches"]
                 ELSE [cmd |-> [c1 EXCEPT !.mesh_dagPath = mesh_list[1],
                                          !.bone_dagPath = bone_list[1]],
                       err |-> ""]

\* cmds.xform(name, query=True, worldSpace=True, rotatePivot=True): the
\* position of the one node that name matches. Maya raises RuntimeError when
\* no node or more than one node matches; the empty name, which bone_name
\* holds when -mbn is not given, matches no node.
xform_ok(sc, name) == Len(getSelectionListByName(sc, name)) = 1

xform(sc, name) == sc.nodes[getSelectionListByName(sc, name)[1]].pos

\* p = t*p2 + (1.0-t)*p1, t in tenths
linear_interpolate_3D(p1, p2, t) ==
    [k \in 1..3 |-> <<t * p2[k] + (10 - t) * p1[k], 10>>]

\* line_normal divides by y1 - y2
line_normal_ok(p1, p2) == p1[2] # p2[2]

\* doIt
doIt(c, sc, args, last_mesh, last_bone) ==
    LET p == parseArguments(c, sc, args, last_mesh, last_bone)
        c1 == p.cmd
        children == SelectSeq([n \in DOMAIN sc.nodes |-> n],
                              LAMBDA n : sc.nodes[n].parent = c1.bone_dagPath)
        next_bone_obj == IF Len(children) > 0 THEN children[1]
                         ELSE sc.nodes[c1.bone_dagPath].parent
        c2 == [c1 EXCEPT !.nextBone_name = IF next_bone_obj = 0 THEN ""
                                           ELSE sc.nodes[next_bone_obj].name]
        bone_position == xform(sc, c2.bone_name)
        nextBone_position == xform(sc, c2.nextBone_name)
        c3 == [c2 EXCEPT !.ray_center =
                   linear_interpolate_3D(bone_position, nextBone_position,
                                         c2.u_parameter)]
    IN  IF p.err # "" THEN p
        ELSE IF ~xform_ok(sc, c2.bone_name) \/ ~xform_ok(sc, c2.nextBone_name)
        THEN [cmd |-> c2, err |-> "RuntimeError: xform"]
        ELSE IF ~line_normal_ok(bone_position, nextBone_position)
        THEN [cmd |-> c3, err |-> "ZeroDivisionError"]
        ELSE [cmd |-> [c3 EXCEPT !.local_frame =
                          <<"LocalFrame", bone_position, nextBone_position>>],
              err |-> ""]

\* the values of the flags of one invocation
ArgSet ==
    [mu : {<<"unset">>, <<"tenths", 3>>, <<"tenths", 10>>},
     mmn : {"", "body", "nosuch"},
     mbn : {"", "hip", "ankle"}]

\* the user runs crossSectionExtract: Maya makes a command object with
\* creator() and calls its doIt
RunCommand(args) ==
    \E last_mesh \in MItSelectionList(scene, "mesh") \cup {0},
       last_bone \in MItSelectionList(scene, "joint") \cup {0} :
        /\ last_mesh = 0 <=> MItSelectionList(scene, "mesh") = {}
        /\ last_bone = 0 <=> MItSelectionList(scene, "joint") = {}
        /\ LET r == doIt(Cmd_init, scene, args, last_mesh, last_bone)
           IN  /\ cmd' = r.cmd
               /\ err' = r.err
        /\ event' = "doIt"
        /\ UNCHANGED <<canvas, win, paint_pending, data_file, disk, scene>>

\* the user adds node n to the active selection or takes it out
ToggleSelect(n) ==
    /\ scene' = [scene EXCEPT !.selection =
                    IF n \in @ THEN @ \ {n} ELSE @ \cup {n}]
    /\ event' = "select"
    /\ UNCHANGED <<canvas, win, paint_pending, data_file, disk, err, cmd>>

(***************************************************************************)
(* Specifications.                                                         *)
(***************************************************************************)
Init ==
    /\ canvas = Canvas_init
    /\ win = Win_init
    /\ paint_pending = FALSE
    /\ data_file = <<>>
    /\ disk = [dirs |-> {}, files |-> <<>>, images |-> <<>>]
    /\ event = "__init__"
    /\ err = ""
    /\ cmd = Cmd_init
    /\ scene = Scene_init
    /\ nevents = 0

\* loading a data file of any shape, then loading curves over it
NextLoad ==
    \/ \E content \in FileSet : canvas.attrs = {} /\ ClickFileButton(content) /\ UNCHANGED nevents
    \/ \E content \in CurveFiles : canvas.attrs # {} /\ ClickFileButton(content) /\ UNCHANGED nevents
    \/ ToggleGeneralizedEllipse /\ UNCHANGED nevents
    \/ PaintEvent /\ UNCHANGED nevents

SpecLoad == Init /\ [][NextLoad]_vars

\* cutting curves of distinct points in composite mode
NextCut ==
    \/ \E content \in CurveFiles : ClickFileButton(content) /\ UNCHANGED nevents
    \/ ToggleGeneralizedEllipse /\ UNCHANGED nevents
    \/ \E text \in {"single piece", "composite"} : SelectSegmentMode(text) /\ UNCHANGED nevents
    \/ \E text \in CutTexts : ConfirmCutPoints(text) /\ UNCHANGED nevents
    \/ PaintEvent /\ UNCHANGED nevents

SpecCut == Init /\ [][NextCut]_vars

\* the data files of a session with the whole window: a curve long enough for
\* a fit with J = 3, and a file whose second line holds a word
SessionFiles ==
    { CurveFile(2 * MaxPts),
      <<LineText(<<2, 0, 0>>), <<"1", " ", "x", " ", "0">>>> }

\* one more event of a session of at most MaxEvents events
Counted == nevents < MaxEvents /\ nevents' = nevents + 1

\* every handler of the window, the paint event included
Next ==
    \/ \E content \in SessionFiles : Counted /\ ClickFileButton(content)
    \/ Counted /\ ToggleGeneralizedEllipse
    \/ Counted /\ ToggleOriginalEllipse
    \/ Counted /\ ToggleStandardEllipse
    \/ Counted /\ ToggleShowPointIndex
    \/ Counted /\ ToggleShowTangent
    \/ Counted /\ ToggleShowCurvature
    \/ Counted /\ ToggleShowCutPointCandidate
    \/ \E text \in SegmentModes : Counted /\ SelectSegmentMode(text)
    \/ Counted /\ ClickManualJ
    \/ Counted /\ ClickAutoJ
    \/ \E J \in {3} : Counted /\ EditJ(J)
    \/ \E value \in {50} : Counted /\ MoveRangeSlider(value)
    \/ \E text \in {<<"0", " ", "2">>} : Counted /\ ConfirmCutPoints(text)
    \/ \E file_path \in {SavePath, ""} : Counted /\ ClickSaveAsDat(file_path)
    \/ Counted /\ PaintEvent

Spec == Init /\ [][Next]_vars

\* drawing the original curve with its cut point candidates
NextDraw ==
    \/ \E content \in DrawFiles : ClickFileButton(content) /\ UNCHANGED nevents
    \/ ToggleOriginalEllipse /\ UNCHANGED nevents
    \/ ToggleShowCutPointCandidate /\ UNCHANGED nevents
    \/ ToggleShowPointIndex /\ UNCHANGED nevents
    \/ PaintEvent /\ UNCHANGED nevents

SpecDraw == Init /\ [][NextDraw]_vars

\* drawing the arc of fragment mode on the original curve
NextArc ==
    \/ \E content \in ArcFiles : ClickFileButton(content) /\ UNCHANGED nevents
    \/ ToggleOriginalEllipse /\ UNCHANGED nevents
    \/ ToggleGeneralizedEllipse /\ UNCHANGED nevents
    \/ \E text \in {"single piece", "fragment"} :
           SelectSegmentMode(text) /\ UNCHANGED nevents
    \/ ClickManualJ /\ UNCHANGED nevents
    \/ \E value \in {25, 75} : MoveRangeSlider(value) /\ UNCHANGED nevents
    \/ PaintEvent /\ UNCHANGED nevents

SpecArc == Init /\ [][NextArc]_vars

\* saving the data and the image of a fit, or cancelling the save dialog
NextSave ==
    \/ \E content \in {CurveFile(2 * MaxPts)} :
           ClickFileButton(content) /\ UNCHANGED nevents
    \/ ToggleGeneralizedEllipse /\ UNCHANGED nevents
    \/ ToggleOriginalEllipse /\ UNCHANGED nevents
    \/ ClickAutoJ /\ UNCHANGED nevents
    \/ \E file_path \in {SavePath, ""} :
           ClickSaveAsDat(file_path) /\ UNCHANGED nevents
    \/ \E file_path \in {ImagePath, ImagePathTyped, ""} :
           ClickSaveAsImg(file_path) /\ UNCHANGED nevents
    \/ PaintEvent /\ UNCHANGED nevents

SpecSave == Init /\ [][NextSave]_vars

\* selecting nodes of the scene and running the command
NextCmd ==
    \/ \E n \in DOMAIN scene.nodes : ToggleSelect(n) /\ UNCHANGED nevents
    \/ \E args \in ArgSet : RunCommand(args) /\ UNCHANGED nevents

SpecCmd == Init /\ [][NextCmd]_vars

(***************************************************************************)
(* The claims.                                                             *)
(***************************************************************************)
Range(seq) == {seq[k] : k \in DOMAIN seq}

Distinct(seq) == \A i, j \in DOMAIN seq : seq[i] = seq[j] => i = j

\* a cut point list is stored and each index lies in 0..N-1
CutsInRange ==
    /\ canvas.cut_points # <<>>
    /\ \A k \in DOMAIN canvas.cut_points :
          canvas.cut_points[k] >= 0 /\ canvas.cut_points[k] < canvas.numPt

\* the places (segment, position) at which the curve vertex of 0-based index j
\* occurs in the segments
PlacesOf(j) ==
    {<<i, k>> \in (DOMAIN canvas.vertices_matrix) \X (1..(canvas.numPt + 1)) :
        k <= Len(canvas.vertices_matrix[i])
        /\ canvas.vertices_matrix[i][k] = canvas.vertices[j + 1]}

\* C1: for every list of M >= 1 distinct cut points in 0..N-1, in the order
\* entered, cut_curve makes M segments that cover the curve: a vertex that is
\* no cut point lies in exactly one segment, a cut point occurs only as the
\* first or last entry of a segment, and for M = 1 the segment has N+1 entries.
C1_SegmentsPartitionCurve ==
    (CutsInRange /\ Distinct(canvas.cut_points) /\ Distinct(canvas.vertices))
    => /\ Len(canvas.vertices_matrix) = Len(canvas.cut_points)
       /\ \A j \in 0..(canvas.numPt - 1) :
             IF j \in Range(canvas.cut_points)
             THEN \A pl \in PlacesOf(j) :
                     pl[2] \in {1, Len(canvas.vertices_matrix[pl[1]])}
             ELSE Cardinality(PlacesOf(j)) = 1
       /\ Len(canvas.cut_points) = 1
             => Len(canvas.vertices_matrix[1]) = canvas.numPt + 1

\* an entry of an angle table
IsAngle(x) == DOMAIN x = {"angle_of", "about"}

\* C2: for every segment i, angles_matrix[i] is as long as vertices_matrix[i],
\* holds only angles, and its k-th entry is the angle of the curve vertex that
\* is the k-th entry of vertices_matrix[i].
C2_AnglesFollowVertices ==
    (CutsInRange /\ Distinct(canvas.vertices))
    => \A i \in DOMAIN canvas.vertices_matrix :
          /\ i \in DOMAIN canvas.angles_matrix
          /\ Len(canvas.angles_matrix[i]) = Len(canvas.vertices_matrix[i])
          /\ \A k \in DOMAIN canvas.vertices_matrix[i] :
                /\ IsAngle(canvas.angles_matrix[i][k])
                /\ \E j \in DOMAIN canvas.vertices :
                      /\ canvas.vertices_matrix[i][k] = canvas.vertices[j]
                      /\ canvas.angles_matrix[i][k] = canvas.angles[j]

\* C3: every index stored in canvas.cut_points lies in 0..N-1, N the number
\* of vertices of the loaded curve.
C3_CutPointsInRange ==
    \A k \in DOMAIN canvas.cut_points :
        canvas.cut_points[k] >= 0 /\ canvas.cut_points[k] < canvas.numPt

\* C4: for in-range cut points c_0..c_{M-1} and every i, the last vertex of
\* segment i and the first vertex of segment (i+1) mod M are the curve vertex
\* at index c_{(i+1) mod M}.
C4_SegmentsShareBoundary ==
    CutsInRange
    => LET M == Len(canvas.cut_points)
       IN  /\ Len(canvas.vertices_matrix) = M
           /\ \A i \in 0..(M - 1) :
                 LET next == (i + 1) % M
                     seg == canvas.vertices_matrix[i + 1]
                     boundary == canvas.vertices[canvas.cut_points[next + 1] + 1]
                 IN  /\ seg # <<>>
                     /\ seg[Len(seg)] = boundary
                     /\ canvas.vertices_matrix[next + 1] # <<>>
                     /\ canvas.vertices_matrix[next + 1][1] = boundary

\* cut_curve has just cut a curve at three in-range cut points entered out of
\* their order around the curve, so that a segment wraps past the end
C4_Witness ==
    /\ event = "get_cut_point" /\ err = ""
    /\ CutsInRange
    /\ canvas.cut_points = <<0, 2, 1>>
    /\ Len(canvas.vertices_matrix) = 3

\* the curve attributes are those that a readFile without exception leaves
LoadedCurve ==
    /\ "halves" \in canvas.attrs
    /\ canvas.numPt = Len(canvas.vertices)
    /\ canvas.numPt = Len(canvas.angles)

\* the entries of list at the 0-based indices idx, in their order
AtIndices(list, idx) == [k \in DOMAIN idx |-> list[idx[k] + 1]]

\* C5: after readFile has loaded N >= 3 vertices, with I = N div 2, the first
\* half is the vertices 0..I, the second half the vertices I..N-1 and then
\* vertex 0, the halves share the indices I and 0 only and cover every index,
\* and the angle halves hold the angles at the same indices.
C5_HalvesSplitCurve ==
    (LoadedCurve /\ canvas.numPt >= 3)
    => LET N == canvas.numPt
           I == N \div 2
           first == [k \in 1..(I + 1) |-> k - 1]
           second == [k \in 1..(N - I + 1) |-> (I + k - 1) % N]
       IN  /\ canvas.vertices_first_half = AtIndices(canvas.vertices, first)
           /\ canvas.vertices_second_half = AtIndices(canvas.vertices, second)
           /\ canvas.angles_first_half = AtIndices(canvas.angles, first)
           /\ canvas.angles_second_half = AtIndices(canvas.angles, second)
           /\ Len(canvas.vertices_first_half) = I + 1
           /\ Len(canvas.vertices_second_half) = N - I + 1
           /\ Range(first) \cap Range(second) = {0, I}
           /\ Range(first) \cup Range(second) = 0..(N - 1)

\* a curve of an odd number of vertices, at least 3, has been loaded
C5_Witness ==
    /\ event = "show_file_selected_dialog" /\ err = ""
    /\ LoadedCurve
    /\ canvas.numPt >= 3 /\ canvas.numPt % 2 = 1
    /\ Len(canvas.vertices_second_half) > Len(canvas.vertices_first_half)

\* the numbers that occur in the lines of the data files
Coords == {-2, 0, 1, 2, 10}

\* the triples of which line is the text, with or without padding
TriplesOf(line) ==
    {v \in Coords \X Coords \X Coords : line \in {LineText(v), PaddedLineText(v)}}

\* C9: after readFile succeeds on a file of L lines that each hold three
\* numbers, numPt = L, len(vertices) = L and vertices[i] is the triple on
\* line i, in line order.
C9_VerticesAreTheLines ==
    (/\ event = "show_file_selected_dialog" /\ err = ""
     /\ \A i \in DOMAIN data_file : TriplesOf(data_file[i]) # {})
    => /\ canvas.numPt = Len(data_file)
       /\ Len(canvas.vertices) = Len(data_file)
       /\ \A i \in DOMAIN data_file :
             \A v \in TriplesOf(data_file[i]) : canvas.vertices[i] = v

\* a file of three different lines of three numbers, one of them padded, has
\* been loaded
C9_Witness ==
    /\ event = "show_file_selected_dialog" /\ err = ""
    /\ Len(data_file) = 3
    /\ \A i \in DOMAIN data_file : TriplesOf(data_file[i]) # {}
    /\ Distinct(data_file)
    /\ canvas.vertices = << <<0, 10, -2>>, <<1, 0, 2>>, <<2, 0, 0>> >>

\* the last event is a run of the command in which parseArguments raised
ParseFailed ==
    /\ event = "doIt"
    /\ err \in {"ValueError: No mesh", "ValueError: Multiple meshes",
                "ValueError: No bone", "ValueError: Multiple bones",
                "RuntimeError: no object matches"}

\* the last event is a run of the command in which parseArguments returned
ParseSucceeded == event = "doIt" /\ ~ParseFailed

\* the nodes of one type that carry a name
Named(name, type) ==
    {n \in DOMAIN scene.nodes :
        scene.nodes[n].name = name /\ scene.nodes[n].type = type}

\* C6: parseArguments succeeds only when exactly one mesh and exactly one bone
\* are resolved: with both names given, one mesh and one bone carry them; with
\* no name given, one mesh and one bone are selected. When it fails, doIt has
\* computed no ray centre.
C6_SucceedsOnlyWithOneOfEach ==
    /\ ParseSucceeded =>
          /\ (cmd.mesh_name # "" /\ cmd.bone_name # "")
                => /\ Cardinality(Named(cmd.mesh_name, "mesh")) = 1
                   /\ Cardinality(Named(cmd.bone_name, "joint")) = 1
          /\ (cmd.mesh_name = "" /\ cmd.bone_name = "")
                => /\ Cardinality(MItSelectionList(scene, "mesh")) = 1
                   /\ Cardinality(MItSelectionList(scene, "joint")) = 1
    /\ ParseFailed => cmd.ray_center = MVector_zero /\ cmd.local_frame = <<"None">>

\* C7: after parseArguments succeeds, a mesh named with -mmn is the mesh the
\* command holds and a bone named with -mbn is the bone it holds, whether or
\* not the other name was given.
C7_NamedEntityIsResolved ==
    ParseSucceeded =>
        /\ cmd.mesh_name # ""
              => scene.nodes[cmd.mesh_dagPath].name = cmd.mesh_name
        /\ cmd.bone_name # ""
              => scene.nodes[cmd.bone_dagPath].name = cmd.bone_name

\* the positions of the newlines in the text of a file
Newlines(text) == {k \in DOMAIN text : text[k][1] = "nl"}

\* the piece at position k of text is the literal lit
IsLit(text, k, lit) ==
    k \in DOMAIN text /\ text[k][1] = "lit" /\ text[k][2] = lit

\* C8: every file that save_dataFn has written holds exactly four lines, a
\* line that starts 'range:', then one that starts 'center: ', then one that
\* starts 'a: ', then one that starts 'b: ', in every segmentation mode.
C8_SavedRecordHasFourLines ==
    \A q \in DOMAIN disk.files :
        LET text == disk.files[q]
        IN  /\ Cardinality(Newlines(text)) = 4
            /\ Len(text) \in Newlines(text)
            /\ IsLit(text, 1, "range:")
            /\ \E p1, p2, p3 \in Newlines(text) :
                  /\ p1 < p2 /\ p2 < p3
                  /\ IsLit(text, p1 + 1, "center: ")
                  /\ IsLit(text, p2 + 1, "a: ")
                  /\ IsLit(text, p3 + 1, "b: ")

\* C10: no event other than loading a file changes canvas.vertices,
\* canvas.angles, canvas.d_bar, canvas.center or canvas.numPt.
C10_CurveDataReadOnlyAfterLoad ==
    [][event' # "show_file_selected_dialog"
        => /\ canvas'.vertices = canvas.vertices
           /\ canvas'.angles = canvas.angles
           /\ canvas'.d_bar = canvas.d_bar
           /\ canvas'.center = canvas.center
           /\ canvas'.numPt = canvas.numPt]_vars

\* a loaded curve has been cut into two segments, the second one wrapping past
\* the end of the curve, and the segments have been painted
C10_Witness ==
    /\ event = "paintEvent"
    /\ LoadedCurve /\ canvas.numPt >= 3
    /\ canvas.composite_mode /\ canvas.generalisedEllipse
    /\ canvas.cut_points = <<0, 2>>
    /\ Len(canvas.vertices_matrix) = 2
    /\ Len(canvas.vertices_matrix[2]) = canvas.numPt - 1

\* the handlers that change a parameter of the fit
ParameterEvents ==
    {"segmentMode_change", "update_manual_J_value",
     "update_visibility_manual_J_mode", "update_visibility_auto_J_mode",
     "get_cut_point"}

\* C11: while the generalized ellipse is displayed and a J mode is selected,
\* after every handler that changes a parameter of the fit, the Ea and Em in
\* the line edits are those of the fit for the parameters the canvas now
\* holds, whenever that fit can be computed.
C11_DisplayedErrorsAreFresh ==
    (/\ event \in ParameterEvents
     /\ canvas.generalisedEllipse
     /\ canvas.manualJ_mode \/ canvas.autoJ_mode)
    => LET fit == draw_generalisedEllipse(canvas)
       IN  fit.err = ""
           => /\ win.Ea_lineEdit = PercentText(fit.canvas.Ea)
              /\ win.Em_lineEdit = PercentText(fit.canvas.Em)

\* C12: after a paint without exception in composite mode with auto J, the Ea
\* and Em that getEa() and getEm() return are those that the composite fit
\* computed for the segments.
C12_CompositeErrorsAreStored ==
    (/\ event = "paintEvent" /\ err = ""
     /\ canvas.generalisedEllipse /\ canvas.composite_mode /\ canvas.autoJ_mode
     /\ canvas.vertices_matrix # <<>>)
    => LET composite == composite_auto_mode(canvas.vertices_matrix,
                                            canvas.angles_matrix, canvas.cut_points)
       IN  canvas.Ea = composite.Ea /\ canvas.Em = composite.Em

\* the four mode flags of the canvas
ModeFlags == {"single_piece_mode", "symmetry_mode", "fragment_mode", "composite_mode"}

\* texts that name no segmentation mode
OtherTexts == {"", "Composite", "symmetry"}

\* C13: in every state exactly one of the four mode flags of the canvas is
\* true, and segmentMode_change with a text that names no mode leaves the
\* four flags as they are.
C13_ExactlyOneSegmentMode ==
    /\ Cardinality({f \in ModeFlags : canvas[f]}) = 1
    /\ \A text \in OtherTexts :
          \A f \in ModeFlags :
              segmentMode_change(Cur, text).canvas[f] = canvas[f]

\* the mode has been changed more than once and is now composite
C13_Witness ==
    /\ event = "segmentMode_change"
    /\ canvas.composite_mode /\ ~canvas.single_piece_mode
    /\ win.segment_comboBox = "composite"
    /\ "cut_point_button" \in win.shown
    /\ "manualJ_mode_radioButton" \notin win.shown

\* in handler state s one J mode is on and the spin box is read-only exactly
\* when it is not the manual one
JModesConsistent(s) ==
    /\ s.canvas.manualJ_mode # s.canvas.autoJ_mode
    /\ s.win.J_spinBox_readOnly = ~s.canvas.manualJ_mode

\* C14: manualJ_mode and autoJ_mode are never both true; once a radio button
\* is checked exactly one of them is true; the J spin box is read-only
\* exactly when manualJ_mode is false; and each of the two radio handlers,
\* with checked true or false, leaves the state so.
C14_OneJMode ==
    /\ ~(canvas.manualJ_mode /\ canvas.autoJ_mode)
    /\ win.J_spinBox_readOnly = ~canvas.manualJ_mode
    /\ (win.manualJ_mode_radioButton \/ win.autoJ_mode_radioButton)
          => canvas.manualJ_mode # canvas.autoJ_mode
    /\ \A checked \in BOOLEAN :
          /\ JModesConsistent(update_visibility_manual_J_mode(Cur, checked))
          /\ JModesConsistent(update_visibility_auto_J_mode(Cur, checked))

\* the user has gone from auto J, which found an order, to manual J
C14_Witness ==
    /\ event = "update_visibility_manual_J_mode"
    /\ win.manualJ_mode_radioButton /\ ~win.autoJ_mode_radioButton
    /\ canvas.manualJ_mode /\ ~canvas.autoJ_mode
    /\ canvas.autoJ_value # 0
    /\ ~win.J_spinBox_readOnly

\* segment is a run of consecutive vertices of the closed curve, from some
\* vertex on, going around at most once and back to its first vertex
IsSubRange(segment, vertices) ==
    LET N == Len(vertices)
    IN  /\ N > 0
        /\ Len(segment) \in 1..(N + 1)
        /\ \E first \in 0..(N - 1) :
              \A k \in DOMAIN segment :
                  segment[k] = vertices[((first + k - 1) % N) + 1]

\* C15: in every state the two halves and every row of vertices_matrix are
\* runs of consecutive vertices of the curve that canvas.vertices holds, and
\* right after a file is loaded no cut point, segment or coefficient of the
\* curve loaded before is left.
C15_SegmentsAreOfLoadedCurve ==
    /\ "halves" \in canvas.attrs
          => /\ IsSubRange(canvas.vertices_first_half, canvas.vertices)
             /\ IsSubRange(canvas.vertices_second_half, canvas.vertices)
    /\ \A i \in DOMAIN canvas.vertices_matrix :
          IsSubRange(canvas.vertices_matrix[i], canvas.vertices)
    /\ event = "show_file_selected_dialog"
          => /\ canvas.cut_points = <<>>
             /\ canvas.vertices_matrix = <<>>
             /\ canvas.a = <<>> /\ canvas.b = <<>>

\* the 0-based indices of the vertices that have fewer than CandidateCount
\* vertices of greater curvature
TopRanked(curvatures) ==
    {i - 1 : i \in {i \in DOMAIN curvatures :
        Cardinality({j \in DOMAIN curvatures :
            CurvatureMagnitude(curvatures[j]) > CurvatureMagnitude(curvatures[i])})
        < CandidateCount}}

\* the whole curve was drawn with its candidates, it has more than
\* CandidateCount vertices and their curvatures are pairwise distinct
CandidatesDrawn ==
    /\ event = "paintEvent" /\ err = ""
    /\ canvas.originalEllipse /\ canvas.activateCutPoint
    /\ ~canvas.fragment_mode /\ ~canvas.composite_mode
    /\ Len(canvas.vertices) > CandidateCount
    /\ \A i, j \in DOMAIN canvas.curvatures :
          CurvatureMagnitude(canvas.curvatures[i])
              = CurvatureMagnitude(canvas.curvatures[j]) => i = j

\* C16: on a curve of more than twenty vertices with pairwise distinct
\* curvatures, every index that draw_originalEllipse labels as a cut point
\* candidate is one of the twenty vertices of highest curvature, and no index
\* is labelled twice.
C16_CandidatesAreTopRanked ==
    CandidatesDrawn =>
        /\ Range(canvas.painted.text) \subseteq TopRanked(canvas.curvatures)
        /\ Distinct(canvas.painted.text)

\* the edges of the arc from start_index to end_index of a curve of n
\* vertices, in the order of the arc
ArcEdges(start_index, end_index, n) ==
    IF start_index < end_index
    THEN [k \in 1..(end_index - start_index) |->
             <<start_index + k - 1, start_index + k>>]
    ELSE [k \in 1..(n - 1 - start_index) |->
             <<start_index + k - 1, start_index + k>>]
         \o <<<<n - 1, 0>>>>
         \o [k \in 1..end_index |-> <<k - 1, k>>]

\* C17: a paint event in fragment mode draws exactly the edges of the arc
\* from start_index to end_index of the original curve: for start_index <
\* end_index the edges (i-1, i) for i = start_index+1 .. end_index, for
\* start_index > end_index those from start_index to the last vertex, the
\* closing edge (N-1, 0), and those from vertex 0 to end_index.
C17_FragmentDrawsTheArc ==
    [][(/\ event' = "paintEvent" /\ err' = ""
        /\ canvas.originalEllipse /\ canvas.fragment_mode
        /\ canvas.vertices # <<>>
        /\ canvas.start_index # canvas.end_index)
       => canvas'.painted.lines
              = ArcEdges(canvas.start_index, canvas.end_index, canvas.numPt)]_vars

\* a wrapping arc has been drawn
C17_Witness ==
    /\ event = "paintEvent" /\ err = ""
    /\ canvas.originalEllipse /\ canvas.fragment_mode
    /\ canvas.start_index > canvas.end_index /\ canvas.end_index > 0
    /\ canvas.painted.lines
           = ArcEdges(canvas.start_index, canvas.end_index, canvas.numPt)
    /\ <<canvas.numPt - 1, 0>> \in Range(canvas.painted.lines)

\* the children of node n of the scene, in DAG order
ChildrenOf(n) ==
    SelectSeq([m \in DOMAIN scene.nodes |-> m], LAMBDA m : scene.nodes[m].parent = n)

\* the vector v as fractions of denominator 10
Tenths(v) == [k \in 1..3 |-> <<10 * v[k], 10>>]

\* doIt has computed the ray centre
RayCenterComputed == event = "doIt" /\ err \in {"", "ZeroDivisionError"}

\* C18: doIt takes for the next bone the first child of the bone if it has
\* one, else its parent; the ray centre is (1-u) * bone position + u * next
\* bone position, with u = 0.0 unless -mu is given, so that it is the bone
\* position at u = 0 and the next bone position at u = 1.
C18_RayCenterInterpolates ==
    RayCenterComputed =>
        \E bone \in DOMAIN scene.nodes :
            LET next == IF Len(ChildrenOf(bone)) > 0 THEN ChildrenOf(bone)[1]
                        ELSE scene.nodes[bone].parent
                p1 == scene.nodes[bone].pos
                p2 == scene.nodes[next].pos
                u == cmd.u_parameter
            IN  /\ scene.nodes[bone].type = "joint"
                /\ next # 0 /\ cmd.nextBone_name = scene.nodes[next].name
                /\ \A k \in 1..3 :
                      cmd.ray_center[k] = <<(10 - u) * p1[k] + u * p2[k], 10>>
                /\ u = 0 => cmd.ray_center = Tenths(p1)
                /\ u = 10 => cmd.ray_center = Tenths(p2)

\* C19: in every state after a load attempt with readFile, also one that
\* stopped on a malformed or blank line, numPt equals len(vertices).
C19_NumPtCountsVertices ==
    canvas.attrs # {} => canvas.numPt = Len(canvas.vertices)

\* C20: autoJ_mode is false whenever fragment_mode is true and manualJ_mode
\* is false whenever composite_mode is true.
C20_JModeMatchesSegmentMode ==
    /\ canvas.fragment_mode => ~canvas.autoJ_mode
    /\ canvas.composite_mode => ~canvas.manualJ_mode

\* the J mode radio buttons that the segmentation mode of the combo box is to
\* show
JButtonsOf(text) ==
    IF text = "fragment" THEN {"manualJ_mode_radioButton"}
    ELSE IF text = "composite" THEN {"autoJ_mode_radioButton"}
    ELSE {"manualJ_mode_radioButton", "autoJ_mode_radioButton"}

\* C21: the J mode radio buttons that are visible after segmentMode_change
\* depend on the current segmentation mode alone: single piece and 2
\* symmetrical halves show both, fragment shows only manual J, composite
\* shows only auto J.
C21_JButtonsFollowSegmentMode ==
    event = "segmentMode_change" =>
        win.shown \cap {"manualJ_mode_radioButton", "autoJ_mode_radioButton"}
            = JButtonsOf(win.segment_comboBox)

\* C22: manualJ changes only when the user edits the J spin box while manual
\* J mode is active; switching to or from auto J mode leaves it at the value
\* the user chose last, and it is always at least 3.
C22_ManualJChangesOnlyByEdit ==
    [][/\ canvas'.manualJ # canvas.manualJ
           => event' = "update_manual_J_value" /\ canvas.manualJ_mode
       /\ canvas'.manualJ >= 3]_vars

\* the canvas shows a fit of symmetric, fragment or composite mode: its last
\* paint is done and the branch of the mode in draw_generalisedEllipse fits
SegmentedFitDisplayed ==
    /\ canvas.generalisedEllipse /\ ~paint_pending
    /\ ~canvas.single_piece_mode
    /\ \/ canvas.symmetry_mode /\ (canvas.manualJ_mode \/ canvas.autoJ_mode)
       \/ canvas.fragment_mode /\ canvas.manualJ_mode
       \/ canvas.composite_mode /\ canvas.autoJ_mode /\ canvas.vertices_matrix # <<>>
    /\ paintEvent(canvas).err = ""

\* C23: the a and b that save_dataFn writes are those of the fit displayed
\* for the active segmentation mode: when a fit of symmetric, fragment or
\* composite mode is displayed, the saved file holds a coefficient list that
\* is not empty and that no fit of the whole curve as a single piece
\* (getCoefficients) has computed.
C23_SavedCoefficientsAreOfDisplayedFit ==
    (/\ event = "save_dataFn"
     /\ SavePath \in DOMAIN disk.files
     /\ disk.files[SavePath] = save_content(canvas)
     /\ SegmentedFitDisplayed)
    => LET text == disk.files[SavePath]
       IN  \A k \in DOMAIN text :
               IsLit(text, k, "a: ")
               => /\ text[k + 1][1] = "str"
                  /\ text[k + 1][2].of[1] # "getCoefficients"

\* C24: when the user cancels the save dialog, save_dataFn and save_imageFn
\* change nothing on the file system: no file and no directory is created or
\* modified.
C24_CancelledSaveLeavesDisk ==
    [][(ClickSaveAsDat("") \/ ClickSaveAsImg("")) => disk' = disk]_vars
====
